---- MODULE Spec2Model ----
(***************************************************************************)
(* urngd: the event-driven entropy gathering and injection engine.         *)
(*                                                                         *)
(* src/urngd.c holds two revisions of the daemon:                          *)
(*   rev = "stack"  lines   1..218  the request is alloca()'d by           *)
(*                                  gather_entropy and filled in place     *)
(*   rev = "heap"   lines 220..465  the request is malloc()'d once by      *)
(*                                  urngd_init and reused (u->rpi)         *)
(* Both are modelled; rev is fixed by Init and never changes.              *)
(* The optional external entropy source (spec 4.3) has no code in src/;    *)
(* its three-state machine is modelled from the specification.             *)
(***************************************************************************)
EXTENDS Integers, Sequences, FiniteSets, TLC

VARIABLES
    rev,          \* which revision of urngd.c is running
    jent_short,   \* the collector may return fewer bytes than asked for
    cfg_src,      \* an external source file was configured on the command line
    pc,           \* position of main(): "init", "log", "gather", "loop", "exited"
    exit_status,  \* return value of main(), 1 while it has not returned
    ec,           \* u->ec is non-NULL (collector allocated)
    rpi,          \* the request's backing memory (u->rpi / the alloca()'d block)
    buf,          \* gather_entropy's local buf[] (rev "heap"), as last left
    rnd_fd,       \* u->rnd_fd: fd and whether uloop has it registered
    src,          \* external source: readiness state, registration, why Idle
    inv,          \* what the last handler invocation did (calls, returns, logs)
    released,     \* resources released so far, in order
    started,      \* number of "started" lines logged
    entered_loop  \* uloop_run() was entered

vars == <<rev, jent_short, cfg_src, pc, exit_status, ec, rpi, buf, rnd_fd, src, inv,
          released, started, entered_loop>>

(***************************************************************************)
(* Program constants                                                       *)
(***************************************************************************)
ENTROPYBYTES == 32
OVERSAMPLINGFACTOR == 2
ENTROPYTHRESH == 1024
\* the payload bytes of one jitter request (lines 55..56; sizeof(buf) at 327)
ENTROPYPOOLBYTES == ENTROPYBYTES * OVERSAMPLINGFACTOR

(***************************************************************************)
(* Bounds of the model                                                     *)
(***************************************************************************)
\* number of distinct byte patterns the jitter collector can deliver
NSeeds == 2
\* number of distinct non-zero patterns indeterminate memory can hold
NGarbage == 1
\* external reads return 0..MaxSmallRead bytes, 40 bytes or the full cap
MaxSmallRead == 2

(***************************************************************************)
(* Byte buffers                                                            *)
(***************************************************************************)
Zeros(n) == [i \in 1..n |-> 0]

Fill(seed, n) == [i \in 1..n |-> ((seed * i) % 255) + 1]

AllZero(b) == \A i \in 1..Len(b) : b[i] = 0

\* memset(s, 0, n) on the first n bytes of b
Memset0(b, n) == [i \in 1..Len(b) |-> IF i <= n THEN 0 ELSE b[i]]

\* memcpy(dst, from, n)
Memcpy(dst, from, n) == [i \in 1..Len(dst) |-> IF i <= n THEN from[i] ELSE dst[i]]

\* contents of memory the program has not written: malloc()'d or alloca()'d
\* blocks and uninitialised locals
Indeterminate(n) == {Zeros(n)} \cup {Fill(100 + g, n) : g \in 1..NGarbage}

\* a request block the program has not written: all zero, or garbage g in
\* every field
IndeterminateReq ==
    {[alloc |-> TRUE, entropy_count |-> 0, buf_size |-> 0,
      buf |-> Zeros(ENTROPYPOOLBYTES)]}
    \cup {[alloc |-> TRUE, entropy_count |-> 1000 + g, buf_size |-> 2000 + g,
           buf |-> Fill(100 + g, ENTROPYPOOLBYTES)] : g \in 1..NGarbage}

NullReq == [alloc |-> FALSE, entropy_count |-> 0, buf_size |-> 0, buf |-> <<>>]

ReqAllZero(r) == r.entropy_count = 0 /\ r.buf_size = 0 /\ AllZero(r.buf)

(***************************************************************************)
(* Inputs from the environment                                             *)
(***************************************************************************)
\* ioctl(RNDADDENTROPY) returns 0 when the kernel accepts, -1 when it rejects
KernelResults == {0, -1}

\* jent_read_entropy(ec, buf, 64): ret is the value returned, n the number
\* of leading bytes of the buffer it wrote, seed names the bytes delivered.
\* It returns the requested length, or a negative error after having
\* written some 8-byte blocks (possibly none). Its ssize_t result also
\* admits a count below the requested length; a collector that makes use of
\* that is covered when jent_short holds.
JentOutcomes ==
    [ret : {ENTROPYPOOLBYTES}, n : {ENTROPYPOOLBYTES}, seed : 1..NSeeds]
    \cup [ret : {-1}, n : {8}, seed : 1..NSeeds]
    \cup [ret : {-1}, n : {0}, seed : {1}]
    \cup (IF jent_short
          THEN [ret : {8}, n : {8}, seed : 1..NSeeds]
               \cup [ret : {0}, n : {0}, seed : {1}]
          ELSE {})

\* the buffer after jent_read_entropy ran on a buffer holding b0
JentWrite(b0, jent) == Memcpy(b0, Fill(jent.seed, ENTROPYPOOLBYTES), jent.n)

\* open(DEV_RANDOM, O_WRONLY): -1 on error, else a descriptor (0 when the
\* process was started with descriptor 0 closed)
OpenResults == {-1, 0, 3}

\* record of one ioctl(RNDADDENTROPY) as the kernel saw it
IoctlCall(from, r, kern) ==
    [from |-> from, entropy_count |-> r.entropy_count, buf_size |-> r.buf_size,
     payload |-> SubSeq(r.buf, 1, r.buf_size), ret |-> kern]

(***************************************************************************)
(* write_entropy                                                           *)
(***************************************************************************)
\* HeapRequest with the credit left in bytes: the conversion to bits dropped
HeapRequest_NoBits(r, b, len, entropy_bytes) ==
    [r EXCEPT !.entropy_count = entropy_bytes,
              !.buf_size = len,
              !.buf = Memcpy(r.buf, b, len)]

\* rev "heap", lines 304..306: the request built in u->rpi
HeapRequest(r, b, len, entropy_bytes) ==
    [r EXCEPT !.entropy_count = entropy_bytes * 8,
              !.buf_size = len,
              !.buf = Memcpy(r.buf, b, len)]

\* HeapWritten with the kernel's answer ignored
HeapWritten_Always(len, kern) == len

\* rev "heap", lines 310..315: bytes reported written
HeapWritten(len, kern) == IF 0 > kern THEN 0 ELSE len

\* rev "heap", lines 317..319: the request after the call
HeapWipe(q, len) ==
    [q EXCEPT !.entropy_count = 0, !.buf_size = 0, !.buf = Memset0(q.buf, len)]

\* rev "heap": write_entropy(u, buf, len, entropy_bytes)
write_entropy_heap(r, b, len, entropy_bytes, kern) ==
    LET q == HeapRequest(r, b, len, entropy_bytes)
    IN  [rpi     |-> HeapWipe(q, len),
         buf     |-> Memset0(b, len),
         ioctl   |-> <<IoctlCall("jitter", q, kern)>>,
         errors  |-> IF 0 > kern THEN <<"error injecting entropy">> ELSE <<>>,
         written |-> HeapWritten(len, kern)]

\* rev "stack", lines 79..88: bytes reported written
StackWritten(r, kern) == IF 0 > kern THEN 0 ELSE r.buf_size

\* rev "stack": write_entropy(u, rpi)
write_entropy_stack(r, kern) ==
    [rpi     |-> r,
     ioctl   |-> <<IoctlCall("jitter", r, kern)>>,
     errors  |-> IF 0 > kern THEN <<"error injecting entropy">> ELSE <<>>,
     written |-> StackWritten(r, kern)]

(***************************************************************************)
(* gather_entropy                                                          *)
(***************************************************************************)
\* JentFailed with the comparison off by one: -1 passes as success
JentFailed_OffByOne(ret) == ret < -1

\* lines 98 / 329: the jitter read failed
JentFailed(ret) == ret < 0

\* GatherFatal with an exit() on the error paths
GatherFatal_OnError(jent, kern) == jent.ret < 0 \/ kern < 0

\* gather_entropy ends the process: on no path, it returns on all of them
\* (lines 100, 110 / 331, 345)
GatherFatal(jent, kern) == FALSE

\* rev "heap": r is u->rpi, b0 the indeterminate content of the local buf[]
gather_entropy_heap(r, b0, jent, kern) ==
    LET b1 == JentWrite(b0, jent)
        w  == write_entropy_heap(r, b1, ENTROPYPOOLBYTES, ENTROPYBYTES, kern)
    IN  IF JentFailed(jent.ret)
        THEN [rpi |-> r, buf |-> b1, jent |-> 1, jent_ret |-> jent.ret, ioctl |-> <<>>,
              errors |-> <<"cannot read entropy">>, ret |-> 0,
              fatal |-> GatherFatal(jent, kern)]
        ELSE [rpi |-> w.rpi,
              buf |-> Memset0(w.buf, ENTROPYPOOLBYTES),
              jent |-> 1, jent_ret |-> jent.ret,
              ioctl |-> w.ioctl,
              errors |-> w.errors \o
                         (IF ENTROPYPOOLBYTES # w.written
                          THEN <<"injected less then expected">> ELSE <<>>),
              ret |-> w.written,
              fatal |-> GatherFatal(jent, kern)]

\* StackRequest with the two sizes swapped: the oversampled size credited
\* as entropy, the entropy size given as length
StackRequest_Swapped(r) ==
    [r EXCEPT !.buf_size = ENTROPYBYTES, !.entropy_count = 8 * ENTROPYPOOLBYTES]

\* rev "stack", lines 103..104: the request filled in place
StackRequest(r) ==
    [r EXCEPT !.buf_size = ENTROPYPOOLBYTES, !.entropy_count = 8 * ENTROPYBYTES]

\* rev "stack": r0 is the indeterminate content of the alloca()'d request
gather_entropy_stack(r0, jent, kern) ==
    LET r1 == [r0 EXCEPT !.buf = JentWrite(r0.buf, jent)]
        r2 == StackRequest(r1)
        w  == write_entropy_stack(r2, kern)
    IN  IF JentFailed(jent.ret)
        THEN [rpi |-> r1, buf |-> <<>>, jent |-> 1, jent_ret |-> jent.ret, ioctl |-> <<>>,
              errors |-> <<"cannot read entropy">>, ret |-> 0,
              fatal |-> GatherFatal(jent, kern)]
        ELSE [rpi |-> [r2 EXCEPT !.buf = Memset0(r2.buf, ENTROPYPOOLBYTES)],
              buf |-> <<>>,
              jent |-> 1, jent_ret |-> jent.ret,
              ioctl |-> w.ioctl,
              errors |-> w.errors,
              ret |-> w.written,
              fatal |-> GatherFatal(jent, kern)]

\* the results gather_entropy can produce from the current state
GatherResults ==
    IF rev = "heap"
    THEN {gather_entropy_heap(rpi, b0, jent, kern) :
             b0 \in Indeterminate(ENTROPYPOOLBYTES),
             jent \in JentOutcomes, kern \in KernelResults}
    ELSE {gather_entropy_stack(r0, jent, kern) :
             r0 \in IndeterminateReq,
             jent \in JentOutcomes, kern \in KernelResults}

(***************************************************************************)
(* urngd_init                                                              *)
(***************************************************************************)
NoFd == [fd |-> 0, registered |-> FALSE]

\* jinit: jent_entropy_init(); alloc_ok: jent_entropy_collector_alloc();
\* malloc_ok, r0: malloc() of the request and its content (rev "heap");
\* fd: open(DEV_RANDOM)
urngd_init(jinit, alloc_ok, malloc_ok, r0, fd) ==
    IF jinit # 0
    THEN [ok |-> FALSE, ec |-> FALSE, rpi |-> NullReq, rnd_fd |-> NoFd,
          errors |-> <<"jent-rng init failed">>]
    ELSE IF ~alloc_ok
    THEN [ok |-> FALSE, ec |-> FALSE, rpi |-> NullReq, rnd_fd |-> NoFd,
          errors |-> <<"jent-rng alloc failed">>]
    ELSE IF rev = "heap" /\ ~malloc_ok
    THEN [ok |-> FALSE, ec |-> TRUE, rpi |-> NullReq, rnd_fd |-> NoFd,
          errors |-> <<"rand pool alloc failed">>]
    ELSE LET r == IF rev = "heap" THEN r0 ELSE NullReq
         IN  IF fd < 1
             THEN [ok |-> FALSE, ec |-> TRUE, rpi |-> r,
                   rnd_fd |-> [fd |-> fd, registered |-> FALSE],
                   errors |-> <<"open failed">>]
             ELSE [ok |-> TRUE, ec |-> TRUE, rpi |-> r,
                   rnd_fd |-> [fd |-> fd, registered |-> TRUE],
                   errors |-> <<>>]

InitResults ==
    {urngd_init(jinit, alloc_ok, malloc_ok, r0, fd) :
        jinit \in {0, 9}, alloc_ok \in BOOLEAN, malloc_ok \in BOOLEAN,
        r0 \in IndeterminateReq, fd \in OpenResults}

(***************************************************************************)
(* urngd_done                                                              *)
(***************************************************************************)
\* DoneWipe with the memset missing
DoneWipe_Missing(r) == r

\* rev "heap", line 364: memset(u->rpi, 0, ...) over the whole request
DoneWipe(r) ==
    [r EXCEPT !.entropy_count = 0, !.buf_size = 0,
              !.buf = Memset0(r.buf, ENTROPYPOOLBYTES)]

\* the releases urngd_done performs, in order; zeroed tells whether the
\* memory was all zero when it was released
urngd_done_releases ==
    (IF ec THEN <<[res |-> "ec", zeroed |-> FALSE]>> ELSE <<>>)
    \o (IF rev = "heap" /\ rpi.alloc
        THEN <<[res |-> "rpi", zeroed |-> ReqAllZero(DoneWipe(rpi))]>>
        ELSE <<>>)
    \o (IF rnd_fd.fd # 0 THEN <<[res |-> "rnd_fd", zeroed |-> FALSE]>> ELSE <<>>)

(***************************************************************************)
(* External source, modelled from the specification (4.3)                  *)
(***************************************************************************)
SrcDisabled == [state |-> "Disabled", registered |-> FALSE, cause |-> "none"]

\* SrcStartup without the fallback: a failed registration leaves the source
\* waiting for a notification that cannot come
SrcStartup_NoFallback(reg_ok) ==
    [state |-> "Armed", registered |-> reg_ok, cause |-> "none"]

\* transition 1: registration at startup
SrcStartup(reg_ok) ==
    IF reg_ok
    THEN [state |-> "Armed", registered |-> TRUE, cause |-> "none"]
    ELSE [state |-> "Idle", registered |-> FALSE, cause |-> "reg_failed"]

\* transition 1: what the startup registration logs
SrcStartupLog(reg_ok) ==
    IF reg_ok THEN <<>> ELSE <<"source does not support registration">>

\* a non-blocking read of at most ENTROPYTHRESH bytes: the count, or -1
SrcReadResults == {-1} \cup 0..MaxSmallRead \cup {40, ENTROPYTHRESH}

\* SrcRequest with the credit left in bytes
SrcRequest_NoBits(n, seed) ==
    [entropy_count |-> n, buf_size |-> n, buf |-> Fill(seed, n)]

\* the Injector's request for n source bytes, credited 1:1
SrcRequest(n, seed) ==
    [entropy_count |-> 8 * n, buf_size |-> n, buf |-> Fill(seed, n)]

\* SrcMayRead that only checks that a source is configured
SrcMayRead_Configured(s) == s.state # "Disabled"

\* transition 3b..3d: a read is attempted only in Idle
SrcMayRead(s) == s.state = "Idle"

\* transition 3b..3d: the external part of a pool-low callback.
\* Yields the new source state and what was done.
SrcOnPoolLow(s, n, seed, kern) ==
    IF ~SrcMayRead(s)
    THEN [src |-> s, reads |-> <<>>, ioctl |-> <<>>, regs |-> <<>>]
    ELSE IF n > 0
    THEN [src |-> [s EXCEPT !.cause = "read_ok"],
          reads |-> <<[n |-> n, state |-> s.state, cause |-> s.cause]>>,
          ioctl |-> <<IoctlCall("src", SrcRequest(n, seed), kern)>>,
          regs |-> <<>>]
    ELSE [src |-> [state |-> "Armed", registered |-> TRUE, cause |-> "none"],
          reads |-> <<[n |-> n, state |-> s.state, cause |-> s.cause]>>,
          ioctl |-> <<>>,
          regs |-> <<"add src">>]

\* what the external part of a pool-low callback can do from source state s
SrcPoolLowResults(s) ==
    IF ~SrcMayRead(s)
    THEN {SrcOnPoolLow(s, 0, 1, 0)}
    ELSE {SrcOnPoolLow(s, n, 1, kern) :
             n \in SrcReadResults, kern \in KernelResults}

\* SrcOnReady with the unregistration missing
SrcOnReady_StillRegistered(s) ==
    [state |-> "Idle", registered |-> TRUE, cause |-> "ready_cb"]

\* transition 2: the readiness callback
SrcOnReady(s) == [state |-> "Idle", registered |-> FALSE, cause |-> "ready_cb"]

(***************************************************************************)
(* The process                                                             *)
(***************************************************************************)
EmptyInv ==
    [op |-> "none", jent |-> 0, jent_ret |-> 0, ioctl |-> <<>>,
     errors |-> <<>>, ret |-> 0, reads |-> <<>>, regs |-> <<>>, logs |-> <<>>]

InvOfGather(op, g) ==
    [op |-> op, jent |-> g.jent, jent_ret |-> g.jent_ret, ioctl |-> g.ioctl,
     errors |-> g.errors, ret |-> g.ret, reads |-> <<>>, regs |-> <<>>,
     logs |-> <<>>]

\* the state before urngd_init(), apart from the collector's behaviour
InitProcess ==
    /\ rev \in {"stack", "heap"}
    /\ cfg_src \in BOOLEAN
    /\ pc = "init"
    /\ exit_status = 0
    /\ ec = FALSE
    /\ rpi = NullReq
    /\ buf = <<>>
    /\ rnd_fd = NoFd
    /\ src = SrcDisabled
    /\ inv = EmptyInv
    /\ released = <<>>
    /\ started = 0
    /\ entered_loop = FALSE

\* the collector returns the requested length or a negative error
Init == InitProcess /\ jent_short = FALSE

\* the collector may also return a short count
InitShort == InitProcess /\ jent_short = TRUE

\* MainAfterInit with the failure return missing
MainAfterInit_NoReturn(ok) == "log"

\* main(), lines 203..206 / 450..453: where main goes after urngd_init()
MainAfterInit(ok) == IF ok THEN "log" ELSE "exited"

\* main(), lines 202..206 / 449..453: uloop_init(); urngd_init() and its
\* failure exit
MainInit ==
    /\ pc = "init"
    /\ \E i \in InitResults, reg_ok \in BOOLEAN :
         /\ ec' = i.ec
         /\ rpi' = i.rpi
         /\ rnd_fd' = i.rnd_fd
         /\ pc' = MainAfterInit(i.ok)
         /\ inv' = [EmptyInv EXCEPT
                       !.op = "urngd_init",
                       !.errors = i.errors,
                       !.regs = IF pc' # "exited" /\ cfg_src /\ reg_ok
                                THEN <<"add src">> ELSE <<>>,
                       !.logs = IF pc' # "exited" /\ cfg_src
                                THEN SrcStartupLog(reg_ok) ELSE <<>>]
         /\ IF pc' = "exited"
            THEN /\ exit_status' = -1
                 /\ src' = src
            ELSE /\ exit_status' = exit_status
                 /\ src' = IF cfg_src THEN SrcStartup(reg_ok) ELSE SrcDisabled
    /\ UNCHANGED <<rev, jent_short, cfg_src, buf, released, started, entered_loop>>

\* MainLogStarted with the LOG() line missing
MainLogStarted_Missing ==
    /\ pc = "log"
    /\ pc' = "gather"
    /\ UNCHANGED <<rev, jent_short, cfg_src, exit_status, ec, rpi, buf, rnd_fd,
                   src, inv, released, started, entered_loop>>

\* main(), line 208 / 455: the "started" line
MainLogStarted ==
    /\ pc = "log"
    /\ pc' = "gather"
    /\ started' = started + 1
    /\ UNCHANGED <<rev, jent_short, cfg_src, exit_status, ec, rpi, buf, rnd_fd, src, inv,
                   released, entered_loop>>

\* MainGather with the gather_entropy() call missing: uloop_run() is entered
\* at once
MainGather_Missing ==
    /\ pc = "gather"
    /\ pc' = "loop"
    /\ entered_loop' = TRUE
    /\ inv' = [EmptyInv EXCEPT !.op = "main"]
    /\ UNCHANGED <<rev, jent_short, cfg_src, exit_status, ec, rpi, buf, rnd_fd,
                   src, released, started>>

\* main(), line 210 / 457: the first gather_entropy(), then uloop_run() is
\* entered
MainGather ==
    /\ pc = "gather"
    /\ \E g \in GatherResults :
         /\ rpi' = g.rpi
         /\ buf' = g.buf
         /\ inv' = InvOfGather("main", g)
         /\ pc' = IF g.fatal THEN "exited" ELSE "loop"
         /\ exit_status' = IF g.fatal THEN 1 ELSE exit_status
         /\ entered_loop' = ~g.fatal
    /\ UNCHANGED <<rev, jent_short, cfg_src, ec, rnd_fd, src, released, started>>

\* uloop_run() can deliver a pool-low event: the loop is running and
\* rnd_fd is registered for write-readiness (line 155 / 402)
PoolLowDeliverable == pc = "loop" /\ rnd_fd.registered

\* low_entropy_cb(): the pool device is writable
low_entropy_cb ==
    /\ PoolLowDeliverable
    /\ \E g \in GatherResults, x \in SrcPoolLowResults(src) :
         /\ rpi' = g.rpi
         /\ buf' = g.buf
         /\ src' = x.src
         /\ inv' = [InvOfGather("low_entropy_cb", g) EXCEPT
                       !.ioctl = g.ioctl \o x.ioctl,
                       !.reads = x.reads,
                       !.regs = x.regs]
         /\ pc' = IF g.fatal THEN "exited" ELSE pc
         /\ exit_status' = IF g.fatal THEN 1 ELSE exit_status
    /\ UNCHANGED <<rev, jent_short, cfg_src, ec, rnd_fd, released, started, entered_loop>>

\* the external source's readiness callback
src_ready_cb ==
    /\ pc = "loop"
    /\ src.state = "Armed"
    /\ src.registered
    /\ src' = SrcOnReady(src)
    /\ inv' = [EmptyInv EXCEPT !.op = "src_ready_cb", !.regs = <<"delete src">>]
    /\ UNCHANGED <<rev, jent_short, cfg_src, pc, exit_status, ec, rpi, buf, rnd_fd, released,
                   started, entered_loop>>

\* main(), lines 212..217 / 459..464: uloop_run() returns, uloop_done(),
\* urngd_done(), return 0
MainShutdown ==
    /\ pc = "loop"
    /\ released' = released \o urngd_done_releases
    /\ ec' = FALSE
    /\ rpi' = IF rev = "heap" THEN NullReq ELSE rpi
    /\ rnd_fd' = NoFd
    /\ src' = [src EXCEPT !.registered = FALSE]
    /\ inv' = [EmptyInv EXCEPT !.op = "urngd_done"]
    /\ pc' = "exited"
    /\ exit_status' = 0
    /\ UNCHANGED <<rev, jent_short, cfg_src, buf, started, entered_loop>>

Next ==
    \/ MainInit
    \/ MainLogStarted
    \/ MainGather
    \/ low_entropy_cb
    \/ src_ready_cb
    \/ MainShutdown

Spec == Init /\ [][Next]_vars

\* the daemon with a collector that may return a short count
SpecShort == InitShort /\ [][Next]_vars

(***************************************************************************)
(* Properties                                                              *)
(***************************************************************************)
\* the injection calls of invocation v made for the jitter source
JitterCalls(v) == SelectSeq(v.ioctl, LAMBDA c : c.from = "jitter")

\* the injection calls of invocation v made for the external source
SrcCalls(v) == SelectSeq(v.ioctl, LAMBDA c : c.from = "src")

\* the last invocation ran gather_entropy
Gathered == inv.op \in {"main", "low_entropy_cb"}

\* the buffer the jitter source was asked to fill, as gather_entropy left it
JitterBuffer == IF rev = "heap" THEN buf ELSE rpi.buf

\* C1: whenever gather_entropy's jitter read succeeded, the request handed
\* to RNDADDENTROPY for it carried entropy_count = 256 and buf_size = 64,
\* after any earlier events and injection outcomes.
C1_JitterRequest ==
    (Gathered /\ inv.jent_ret >= 0) =>
        /\ Len(JitterCalls(inv)) = 1
        /\ JitterCalls(inv)[1].entropy_count = 256
        /\ JitterCalls(inv)[1].buf_size = 64

\* C1 witness: a pool-low callback whose jitter read succeeded and whose
\* request reached the kernel, in the loop (so after the first gather)
C1_Witness ==
    /\ inv.op = "low_entropy_cb"
    /\ inv.jent_ret = 64
    /\ Len(JitterCalls(inv)) = 1
    /\ JitterCalls(inv)[1].entropy_count = 256
    /\ Len(JitterCalls(inv)[1].payload) = 64
    /\ JitterCalls(inv)[1].ret = 0

\* C2: whenever gather_entropy has returned, on every path, the buffer the
\* jitter source was asked to fill is all zero.
C2_BufferWiped == Gathered => AllZero(JitterBuffer)

\* C3: after any call to write_entropy the request's payload, entropy_count
\* and buf_size are all zero, and whenever control is in the dispatcher the
\* request's backing memory is all zero.
C3_RequestWiped ==
    /\ (Gathered /\ Len(JitterCalls(inv)) > 0) => ReqAllZero(rpi)
    /\ pc = "loop" => ReqAllZero(rpi)

\* C4: a rejected injection is reported, counts as 0 bytes written, and is
\* not resubmitted: one gather_entropy call issues the control call at most
\* once.
C4_RejectNotRetried ==
    Gathered =>
        /\ Len(JitterCalls(inv)) <= 1
        /\ \A i \in 1..Len(JitterCalls(inv)) :
             JitterCalls(inv)[i].ret < 0 =>
                /\ inv.ret = 0
                /\ \E k \in 1..Len(inv.errors) :
                      inv.errors[k] = "error injecting entropy"

\* C4 witness: the kernel rejected the injection of a pool-low callback
C4_Witness ==
    /\ inv.op = "low_entropy_cb"
    /\ Len(JitterCalls(inv)) = 1
    /\ JitterCalls(inv)[1].ret < 0
    /\ inv.ret = 0

\* C5: once initialization has succeeded, jitter read failures and kernel
\* rejections do not terminate the daemon: after every pool-low callback it
\* is still in the dispatch loop with the pool device registered, so the
\* next pool-low event can be handled.
C5_SteadyStateSurvives ==
    inv.op = "low_entropy_cb" =>
        /\ pc = "loop"
        /\ rnd_fd.registered
        /\ PoolLowDeliverable

\* C5 witness: a pool-low callback in which the jitter read failed, and the
\* daemon still in the loop
C5_Witness ==
    /\ inv.op = "low_entropy_cb"
    /\ inv.jent_ret < 0
    /\ pc = "loop"

\* C6: a failed initialization step ends the process with a non-zero status;
\* the dispatch loop was never entered, the pool device is not registered
\* and no entropy was gathered or injected.
C6_InitFailureFatal ==
    /\ (inv.op = "urngd_init" /\ inv.errors # <<>>) =>
          (pc = "exited" /\ exit_status # 0)
    /\ (pc = "exited" /\ exit_status # 0) =>
          /\ inv.op = "urngd_init"
          /\ inv.errors # <<>>
          /\ ~entered_loop
          /\ ~rnd_fd.registered
          /\ inv.jent = 0
          /\ inv.ioctl = <<>>

\* C6 witness: the pool device could not be opened after the collector was
\* allocated
C6_Witness ==
    /\ pc = "exited"
    /\ exit_status # 0
    /\ ec
    /\ inv.errors = <<"open failed">>

\* C7: a pool-low callback makes exactly one jitter pull; with no external
\* source configured it issues exactly one injection, {256 bits, 64 bytes},
\* when the pull succeeded and none when it failed, and it registers or
\* unregisters nothing.
C7_OnePullPerCallback ==
    inv.op = "low_entropy_cb" =>
        /\ inv.jent = 1
        /\ src.state = "Disabled" =>
              /\ inv.regs = <<>>
              /\ inv.jent_ret >= 0 =>
                    /\ Len(inv.ioctl) = 1
                    /\ inv.ioctl[1].entropy_count = 256
                    /\ inv.ioctl[1].buf_size = 64
              /\ inv.jent_ret < 0 => inv.ioctl = <<>>

\* C7 witness: a pool-low callback without external source whose pull failed
C7_Witness ==
    /\ inv.op = "low_entropy_cb"
    /\ src.state = "Disabled"
    /\ inv.jent = 1
    /\ inv.jent_ret < 0
    /\ inv.ioctl = <<>>

\* C8 as stated: the external source is never read while Armed, and a read
\* happens only after a readiness event or after a prior Idle read that
\* produced bytes.
C8_ReadOnlyAfterReadyOrRead ==
    \A i \in 1..Len(inv.reads) :
        /\ inv.reads[i].state # "Armed"
        /\ inv.reads[i].cause \in {"ready_cb", "read_ok"}

\* C8 amended: the external source is never read while Armed; a read happens
\* only in a pool-low callback, in Idle, reached by a readiness event, by a
\* prior Idle read that produced bytes, or by the startup registration having
\* failed, with no re-arming in between.
C8_NoReadWhileArmed ==
    /\ inv.reads # <<>> => inv.op = "low_entropy_cb"
    /\ \A i \in 1..Len(inv.reads) :
          /\ inv.reads[i].state = "Idle"
          /\ inv.reads[i].cause \in {"ready_cb", "read_ok", "reg_failed"}

\* C8 witness: a read taken after a readiness event
C8_Witness ==
    /\ inv.op = "low_entropy_cb"
    /\ Len(inv.reads) = 1
    /\ inv.reads[1].cause = "ready_cb"

\* C9: an Idle read of n > 0 bytes submits exactly one more request, with
\* entropy_count = 8 * n and buf_size = n, and the state stays Idle; a read
\* of 0 bytes or a read error submits nothing for the external source and
\* re-registers it, taking the state from Idle to Armed.
C9_SrcReadOutcome ==
    \A i \in 1..Len(inv.reads) :
        LET n == inv.reads[i].n
        IN  /\ Len(inv.reads) = 1
            /\ n <= ENTROPYTHRESH
            /\ n > 0 =>
                  /\ Len(SrcCalls(inv)) = 1
                  /\ SrcCalls(inv)[1].entropy_count = 8 * n
                  /\ SrcCalls(inv)[1].buf_size = n
                  /\ Len(SrcCalls(inv)[1].payload) = n
                  /\ src.state = "Idle"
                  /\ inv.regs = <<>>
            /\ n <= 0 =>
                  /\ SrcCalls(inv) = <<>>
                  /\ inv.reads[i].state = "Idle"
                  /\ src.state = "Armed"
                  /\ src.registered
                  /\ inv.regs = <<"add src">>

\* C9 witness: the read returned 40 bytes and {320, 40} was submitted after
\* the jitter request
C9_Witness ==
    /\ Len(inv.reads) = 1
    /\ inv.reads[1].n = 40
    /\ Len(inv.ioctl) = 2
    /\ inv.ioctl[2].from = "src"
    /\ inv.ioctl[2].entropy_count = 320
    /\ src.state = "Idle"

\* C10: the readiness callback of the external source unregisters it and
\* takes it from Armed to Idle; it reads nothing, injects nothing and
\* changes nothing else.
C10_ReadyOnlyDisarms ==
    [][inv'.op = "src_ready_cb" =>
          /\ src.state = "Armed"
          /\ src'.state = "Idle"
          /\ ~src'.registered
          /\ inv'.regs = <<"delete src">>
          /\ inv'.reads = <<>>
          /\ inv'.ioctl = <<>>
          /\ inv'.jent = 0
          /\ UNCHANGED <<rev, jent_short, cfg_src, pc, exit_status, ec, rpi, buf, rnd_fd,
                         released, started, entered_loop>>]_vars

\* C10 witness: a readiness callback has run
C10_Witness ==
    /\ inv.op = "src_ready_cb"
    /\ src.state = "Idle"
    /\ ~src.registered

\* C11: with an external source configured, a successful startup
\* registration leaves it Armed; a failed one is logged, is not fatal and
\* leaves it Idle, and the dispatch loop is still entered. Without an
\* external source the state is Disabled throughout the run.
C11_StartupRegistration ==
    /\ ~cfg_src => src = SrcDisabled
    /\ (cfg_src /\ pc = "log") =>
          \/ /\ src.state = "Armed"
             /\ src.registered
             /\ inv.regs = <<"add src">>
             /\ inv.logs = <<>>
          \/ /\ src.state = "Idle"
             /\ ~src.registered
             /\ src.cause = "reg_failed"
             /\ inv.logs = <<"source does not support registration">>
             /\ inv.errors = <<>>
    /\ (cfg_src /\ pc \in {"gather", "loop"}) => src.state \in {"Armed", "Idle"}
    /\ src.cause = "reg_failed" => (pc = "exited" => exit_status = 0)
    /\ (src.cause = "reg_failed" /\ pc = "loop") => PoolLowDeliverable

\* C11 witness: the startup registration failed and the daemon is in the
\* dispatch loop with the source Idle
C11_Witness ==
    /\ cfg_src
    /\ pc = "loop"
    /\ entered_loop
    /\ src.state = "Idle"
    /\ src.cause = "reg_failed"

\* the number of times resource x was released
ReleaseCount(x) == Len(SelectSeq(released, LAMBDA e : e.res = x))

\* C12: when the dispatch loop has ended, the shutdown path has freed the
\* collector, zeroed and then released the request buffer still allocated,
\* and closed the pool device; none of them is held any more and each was
\* released exactly once.
C12_ShutdownReleases ==
    (pc = "exited" /\ exit_status = 0) =>
        /\ ~ec
        /\ rnd_fd.fd = 0
        /\ ~rnd_fd.registered
        /\ ReleaseCount("ec") = 1
        /\ ReleaseCount("rnd_fd") = 1
        /\ rev = "heap" =>
              /\ ~rpi.alloc
              /\ ReleaseCount("rpi") = 1
              /\ \A i \in 1..Len(released) :
                    released[i].res = "rpi" => released[i].zeroed
        /\ rev = "stack" => ReleaseCount("rpi") = 0

\* C12 witness: a shutdown that released the collector, the malloc()'d
\* request and the pool device
C12_Witness ==
    /\ pc = "exited"
    /\ exit_status = 0
    /\ rev = "heap"
    /\ Len(released) = 3
    /\ released[2] = [res |-> "rpi", zeroed |-> TRUE]

\* C13: every injection request submitted to the kernel credits at most 8
\* bits per payload byte, and its buf_size is the number of payload bytes
\* placed in it: the payload is exactly buf_size bytes delivered by the
\* source.
C13_CreditWithinPayload ==
    \A i \in 1..Len(inv.ioctl) :
        LET c == inv.ioctl[i]
        IN  /\ c.entropy_count <= 8 * c.buf_size
            /\ c.buf_size > 0
            /\ Len(c.payload) = c.buf_size
            /\ \E seed \in 1..NSeeds : c.payload = Fill(seed, c.buf_size)

\* C13 witness: a callback that submitted a jitter request and an external
\* request
C13_Witness ==
    /\ Len(inv.ioctl) = 2
    /\ inv.ioctl[1].entropy_count = 256
    /\ inv.ioctl[1].buf_size = 64
    /\ inv.ioctl[2].entropy_count = 8 * inv.ioctl[2].buf_size
    /\ inv.ioctl[2].buf_size = ENTROPYTHRESH

\* C14: a jitter pull that returns a non-negative count below the 64 bytes
\* requested is treated as failed: no injection request is submitted for it
\* and no entropy is credited.
C14_ShortPullNotInjected ==
    (Gathered /\ inv.jent_ret >= 0 /\ inv.jent_ret < 64) =>
        JitterCalls(inv) = <<>>

\* C15: when initialization fails part-way, every resource acquired before
\* the failing step (the collector, the request buffer) has been released
\* when the process exits.
C15_InitFailureReleases ==
    (pc = "exited" /\ exit_status # 0) =>
        /\ ~ec
        /\ ~(rev = "heap" /\ rpi.alloc)

\* C16: the "started" line is logged exactly once in a run whose
\* initialization succeeded, with the collector allocated and the pool
\* device open, before the first injection attempt, and never in a run
\* whose initialization failed.
C16_StartedOnce ==
    /\ started \in {0, 1}
    /\ pc \in {"init", "log"} => started = 0
    /\ (pc = "exited" /\ exit_status # 0) => started = 0
    /\ (pc \in {"gather", "loop"} \/ (pc = "exited" /\ exit_status = 0)) =>
          started = 1
    /\ (started = 1 /\ pc = "gather") =>
          /\ ec
          /\ rnd_fd.fd >= 1
          /\ inv.op = "urngd_init"
          /\ inv.errors = <<>>
    /\ started = 0 => (inv.jent = 0 /\ inv.ioctl = <<>>)

\* C16 witness: the line was logged and the first injection followed
C16_Witness ==
    /\ started = 1
    /\ inv.op = "main"
    /\ Len(inv.ioctl) = 1

\* C17: after a successful initialization the daemon makes exactly one
\* gather-and-inject attempt of its own, before the dispatch loop is entered
\* and without a pool-low event; every later attempt is made by a pool-low
\* callback.
C17_OneOwnGather ==
    /\ [][entered_loop => entered_loop']_vars
    /\ [][(~entered_loop /\ entered_loop') =>
             (pc = "gather" /\ inv'.op = "main" /\ inv'.jent = 1)]_vars
    /\ [][(inv'.op = "main" /\ inv' # inv) =>
             (~entered_loop /\ entered_loop' /\ pc = "gather")]_vars
    /\ [][(entered_loop /\ inv'.jent > 0 /\ inv' # inv) =>
             (pc = "loop" /\ inv'.op = "low_entropy_cb" /\ inv'.jent = 1)]_vars

\* C17 witness: the loop was entered after the daemon's own attempt, and a
\* pool-low callback made the next one
C17_Witness ==
    /\ entered_loop
    /\ inv.op = "low_entropy_cb"
    /\ inv.jent = 1

====
